---- MODULE Spec2Model ----
(***************************************************************************)
(* Model of the podcast feed reader (app.py): the feed parser fetch_feed   *)
(* with its normalisers, and the Flask request handlers working on the     *)
(* SQLite tables feeds and episodes.                                       *)
(*                                                                         *)
(* Strings are sequences of one-character strings, so that strip(), the    *)
(* tag-stripping regular expression, html.unescape and int() are computed  *)
(* character by character.                                                 *)
(***************************************************************************)
EXTENDS Integers, Sequences, FiniteSets, TLC

VARIABLES
    feeds,       \* rows of table feeds; added_at, the CURRENT_TIMESTAMP of the
                 \* INSERT, is a logical time: the number of the INSERT
    episodes,    \* rows of table episodes
    feedSeq,     \* sqlite_sequence entry of feeds (AUTOINCREMENT)
    episodeSeq,  \* sqlite_sequence entry of episodes (AUTOINCREMENT)
    inflight,    \* the requests under way: the place each handler has reached
                 \* (pc) and its local variables
    event,       \* the request answered last and its response (history)
    content,     \* parser check: the HTTP response handed to fetch_feed
    parsed       \* parser check: what fetch_feed returned for it

vars == <<feeds, episodes, feedSeq, episodeSeq, inflight, event,
          content, parsed>>

storeVars == <<feeds, episodes, feedSeq, episodeSeq, inflight, event>>

-----------------------------------------------------------------------------
(* Values *)

\* Python None / SQL NULL: a value that is no string
None == <<"None">>

\* Element.find() found no such element
NoElem == <<"NoElem">>

\* Python truthiness of an optional string: None and "" are falsy
Falsy(x) == x = None \/ x = <<>>

Min(a, b) == IF a < b THEN a ELSE b

\* s[:n]
Take(s, n) == SubSeq(s, 1, Min(n, Len(s)))

\* s[n:]
Drop(s, n) == SubSeq(s, Min(n, Len(s)) + 1, Len(s))

IsSpace(c) == c = " "

RECURSIVE LStrip(_)
LStrip(s) ==
    IF s # <<>> /\ IsSpace(Head(s)) THEN LStrip(Tail(s)) ELSE s

RECURSIVE RStrip(_)
RStrip(s) ==
    IF s # <<>> /\ IsSpace(s[Len(s)]) THEN RStrip(SubSeq(s, 1, Len(s) - 1)) ELSE s

\* str.strip()
Strip(s) == RStrip(LStrip(s))

\* c in s
Contains(s, c) == \E i \in 1..Len(s) : s[i] = c

-----------------------------------------------------------------------------
(* parse_duration *)

Digits == <<"0", "1", "2", "3", "4", "5", "6", "7", "8", "9">>

IsDigit(c) == \E d \in 1..10 : Digits[d] = c

DigitVal(c) == (CHOOSE d \in 1..10 : Digits[d] = c) - 1

RECURSIVE DigitsVal(_)
DigitsVal(s) ==
    IF s = <<>> THEN 0 ELSE 10 * DigitsVal(SubSeq(s, 1, Len(s) - 1)) + DigitVal(s[Len(s)])

AllDigits(s) == s # <<>> /\ \A i \in 1..Len(s) : IsDigit(s[i])

\* int(s) succeeds: an optional sign and decimal digits (s is already stripped)
IntOk(s) ==
    \/ AllDigits(s)
    \/ s # <<>> /\ Head(s) \in {"+", "-"} /\ AllDigits(Tail(s))

\* int(s)
IntVal(s) ==
    IF Head(s) = "-" THEN 0 - DigitsVal(Tail(s))
    ELSE IF Head(s) = "+" THEN DigitsVal(Tail(s))
    ELSE DigitsVal(s)

RECURSIVE NatStr(_)
NatStr(n) ==
    IF n < 10 THEN <<Digits[n + 1]>> ELSE NatStr(n \div 10) \o <<Digits[(n % 10) + 1]>>

\* f"{n}"
IntStr(n) == IF n < 0 THEN <<"-">> \o NatStr(0 - n) ELSE NatStr(n)

\* f"{n:02d}" for n >= 0 (a remainder of divmod is never negative)
Pad2(n) == IF n < 10 THEN <<"0">> \o NatStr(n) ELSE NatStr(n)

parse_duration(duration_str) ==
    IF Falsy(duration_str) THEN None
    ELSE LET s == Strip(duration_str) IN
         IF Contains(s, ":") THEN s
         ELSE IF IntOk(s)
              THEN LET seconds   == IntVal(s)
                       h         == seconds \div 3600
                       remainder == seconds % 3600
                       m         == remainder \div 60
                       sec       == remainder % 60
                   IN  IF h > 0
                       THEN IntStr(h) \o <<":">> \o Pad2(m) \o <<":">> \o Pad2(sec)
                       ELSE IntStr(m) \o <<":">> \o Pad2(sec)
              ELSE s

-----------------------------------------------------------------------------
(* parse_date *)

\* The strptime formats of parse_date, in the order they are tried
DateFormats == <<"%a, %d %b %Y %H:%M:%S %z", "%a, %d %b %Y %H:%M:%S %Z",
                 "%Y-%m-%dT%H:%M:%S%z", "%Y-%m-%d">>

\* "2023-01-02", a date text the last format accepts
IsoDate == <<"2", "0", "2", "3", "-", "0", "1", "-", "0", "2">>

\* What strftime("%Y-%m-%d %H:%M") gives for it
IsoDateStamp == IsoDate \o <<" ", "0", "0", ":", "0", "0">>

\* datetime.strptime(s, fmt).strftime(...), or None for ValueError, on the
\* date texts of this model: only IsoDate has the shape of any format
Strptime(s, fmt) ==
    IF s = IsoDate /\ fmt = "%Y-%m-%d" THEN IsoDateStamp ELSE None

RECURSIVE TryFormats(_, _)
TryFormats(date_str, formats) ==
    IF formats = <<>>
    THEN (IF Len(date_str) > 25 THEN Take(date_str, 25) ELSE date_str)
    ELSE LET dt == Strptime(Strip(date_str), Head(formats)) IN
         IF dt # None THEN dt ELSE TryFormats(date_str, Tail(formats))

parse_date(date_str) ==
    IF Falsy(date_str) THEN None ELSE TryFormats(date_str, DateFormats)

-----------------------------------------------------------------------------
(* Description clean-up: re.sub(r'<[^>]+>', '', d), html.unescape, [:500] *)

\* The truncation length of an episode description
DescLimit == 500

\* Index of the first ">" of s at or after position i, 0 when there is none
RECURSIVE FirstGt(_, _)
FirstGt(s, i) ==
    IF i > Len(s) THEN 0 ELSE IF s[i] = ">" THEN i ELSE FirstGt(s, i + 1)

\* re.sub(r'<[^>]+>', '', s): a match is "<", one or more characters other
\* than ">", and the next ">"; the scan resumes behind a match
RECURSIVE StripTags(_)
StripTags(s) ==
    IF s = <<>> THEN <<>>
    ELSE IF Head(s) = "<"
         THEN LET j == FirstGt(s, 2) IN
              IF j > 2 THEN StripTags(Drop(s, j))
              ELSE <<"<">> \o StripTags(Tail(s))
         ELSE <<Head(s)>> \o StripTags(Tail(s))

\* The character class [^\t\n\f <&#;] of html's charref pattern
NameChar(c) == c \notin {"\t", "\n", "\f", " ", "<", "&", "#", ";"}

\* Length of the run of name characters s starts with, at most 32
RECURSIVE NameRunLen(_, _)
NameRunLen(s, n) ==
    IF n < 32 /\ Len(s) > n /\ NameChar(s[n + 1]) THEN NameRunLen(s, n + 1) ELSE n

\* html.entities.html5: the entries whose names are made of the letters l
\* and t, the only letters of the description texts of this model;
\* "L" stands for U+226A, the value of "ll;"
Html5Names == {<<"l", "t">>, <<"l", "t", ";">>, <<"l", "l", ";">>}

Html5(name) == IF name = <<"l", "l", ";">> THEN <<"L">> ELSE <<"<">>

\* The for loop of replace_charref: the longest proper prefix of at least
\* two characters that is an entity name
RECURSIVE PrefixCharref(_, _)
PrefixCharref(s, x) ==
    IF x < 2 THEN <<"&">> \o s
    ELSE IF Take(s, x) \in Html5Names THEN Html5(Take(s, x)) \o Drop(s, x)
    ELSE PrefixCharref(s, x - 1)

\* html._replace_charref for a named reference (group 1 of the pattern)
replace_charref(s) ==
    IF s \in Html5Names THEN Html5(s) ELSE PrefixCharref(s, Len(s) - 1)

\* html.unescape(s) for texts without numeric references
RECURSIVE unescape(_)
unescape(s) ==
    IF s = <<>> THEN <<>>
    ELSE IF Head(s) = "&"
         THEN LET n == NameRunLen(Tail(s), 0)
                  m == IF Len(s) > n + 1 /\ s[n + 2] = ";" THEN n + 1 ELSE n
              IN  IF n = 0 THEN <<"&">> \o unescape(Tail(s))
                  ELSE replace_charref(SubSeq(s, 2, m + 1)) \o unescape(Drop(s, m + 1))
         ELSE <<Head(s)>> \o unescape(Tail(s))

\* line 186
CleanDescription(ep_description) ==
    Take(unescape(StripTags(ep_description)), DescLimit)

-----------------------------------------------------------------------------
(* fetch_feed *)

\* An element is a function from the paths the parser looks up to what
\* Element.find() gives there: for a text child NoElem, None (no text) or the
\* text; for enclosure, media:content and itunes:image NoElem, or the value of
\* the url/href attribute (None when the attribute is missing); for "item"
\* the sequence findall() returns.

Untitled == <<"U", "n", "t", "i", "t", "l", "e", "d">>

UnknownPodcast == <<"U", "n", "k", "n", "o", "w", "n", " ", "P", "o", "d", "c", "a", "s", "t">>

\* x or default
OrElse(x, default) == IF Falsy(x) THEN default ELSE x

RECURSIVE find_text(_, _)
find_text(elem, paths) ==
    IF paths = <<>> THEN None
    ELSE LET el == elem[Head(paths)] IN
         IF el # NoElem /\ ~Falsy(el) THEN Strip(el)
         ELSE find_text(elem, Tail(paths))

\* A parser that looks at media:content only when there is no enclosure
AudioUrlNoEnclosureOnly(item) ==
    IF item["enclosure"] # NoElem THEN item["enclosure"]
    ELSE IF item["media:content"] # NoElem THEN item["media:content"]
    ELSE None

\* lines 166-173: the audio URL of an item
AudioUrl(item) ==
    LET enclosure == item["enclosure"]
        audio_url == IF enclosure # NoElem THEN enclosure ELSE None
        media     == item["media:content"]
    IN  IF Falsy(audio_url)
        THEN (IF media # NoElem THEN media ELSE audio_url)
        ELSE audio_url

\* lines 178-195: the episode record of an item that has an audio URL
Episode(item) ==
    LET audio_url      == AudioUrl(item)
        ep_title       == OrElse(find_text(item, <<"title">>), Untitled)
        ep_description == find_text(item, <<"description", "content:encoded", "itunes:summary">>)
        pub_date       == find_text(item, <<"pubDate", "published">>)
        duration       == find_text(item, <<"itunes:duration", "duration">>)
        guid           == OrElse(find_text(item, <<"guid">>), audio_url)
    IN  [guid        |-> guid,
         title       |-> ep_title,
         description |-> IF Falsy(ep_description) THEN ep_description
                         ELSE CleanDescription(ep_description),
         audio_url   |-> audio_url,
         pub_date    |-> parse_date(pub_date),
         duration    |-> parse_duration(duration)]

\* A loop without the "if not audio_url: continue" of line 175
RECURSIVE ExtractAllItems(_)
ExtractAllItems(items) ==
    IF items = <<>> THEN <<>>
    ELSE <<Episode(Head(items))>> \o ExtractAllItems(Tail(items))

\* lines 164-195: the loop over channel.findall("item")
RECURSIVE ExtractEpisodes(_)
ExtractEpisodes(items) ==
    IF items = <<>> THEN <<>>
    ELSE IF Falsy(AudioUrl(Head(items))) THEN ExtractEpisodes(Tail(items))
    ELSE <<Episode(Head(items))>> \o ExtractEpisodes(Tail(items))

\* lines 154-161
ImageUrl(channel) ==
    LET itunes_image == channel["itunes:image"]
        image_url    == IF itunes_image # NoElem THEN itunes_image ELSE None
        image_el     == channel["image/url"]
    IN  IF Falsy(image_url)
        THEN (IF image_el # NoElem THEN image_el ELSE image_url)
        ELSE image_url

\* The tag ElementTree gives the feed element of an Atom document
AtomFeed == "{http://www.w3.org/2005/Atom}feed"

\* An element of the parsed document: its tag, what find(), findall() and
\* get() return on it for the paths fetch_feed asks for (elem), and its child
\* elements in document order, which are elements of this kind themselves
Node(tag, elem, children) == [tag |-> tag, elem |-> elem, children |-> children]

\* The elements below the given children, these included, in document order
RECURSIVE DescendantsOf(_)
DescendantsOf(children) ==
    IF children = <<>> THEN <<>>
    ELSE <<Head(children)>> \o DescendantsOf(Head(children).children)
                           \o DescendantsOf(Tail(children))

\* Element.find(tag): the first child with that tag
Find(node, tag) == SelectSeq(node.children, LAMBDA n : n.tag = tag)

\* Element.find(".//" + tag): the first element below node with that tag;
\* node itself is never matched
FindBelow(node, tag) == SelectSeq(DescendantsOf(node.children), LAMBDA n : n.tag = tag)

\* lines 129-133: root.find("channel"), else the Atom feed element below the
\* root; <<>> when there is neither
FindChannel(response) ==
    LET channel == Find(response.root, "channel") IN
    IF channel # <<>> THEN <<channel[1].elem>>
    ELSE LET feed == FindBelow(response.root, AtomFeed) IN
         IF feed # <<>> THEN <<feed[1].elem>>
         ELSE <<>>

\* fetch_feed(url), given what the server at url answers: body "URLError"
\* (urlopen raised), "ParseError" (not well-formed) or "xml"
fetch_feed(response) ==
    IF response.body = "URLError" THEN [ok |-> FALSE, error |-> "Failed to fetch feed"]
    ELSE IF response.body = "ParseError" THEN [ok |-> FALSE, error |-> "Invalid RSS feed"]
    ELSE IF FindChannel(response) = <<>>
         THEN [ok |-> FALSE, error |-> "No channel found in feed"]
    ELSE LET channel == FindChannel(response)[1] IN
         [ok          |-> TRUE,
          title       |-> OrElse(find_text(channel, <<"title">>), UnknownPodcast),
          description |-> find_text(channel, <<"description", "itunes:summary">>),
          image_url   |-> ImageUrl(channel),
          episodes    |-> ExtractEpisodes(channel["item"])]

-----------------------------------------------------------------------------
(* Bounds and inputs of the request handlers *)

\* Number of requests that can be in progress at the same time
NumSlots == 2

\* Largest feed id and largest episode id the model hands out
MaxFeedSeq == 2

MaxEpisodeSeq == 4

U1 == <<"u">>

U2 == <<"v">>

\* The feed URLs of the model
Urls == <<U1, U2>>

\* The "url" field of an add request
UrlInputs == {<<>>, <<" ", "u">>} \cup {Urls[k] : k \in 1..Len(Urls)}

\* Ids a request can name: every id handed out and one that never is
FeedIds == 1..(MaxFeedSeq + 1)

EpisodeIds == 1..(MaxEpisodeSeq + 1)

\* The "position" field of a progress request
Positions == {0, 7}

A1 == <<"a">>

B1 == <<"b">>

TextPaths == {"title", "description", "content:encoded", "itunes:summary",
              "pubDate", "published", "itunes:duration", "duration", "guid"}

\* An <item> with the given enclosure and media:content and no other child
BareItem(enclosure, media) ==
    [path \in TextPaths \cup {"enclosure", "media:content"} |->
        IF path = "enclosure" THEN enclosure
        ELSE IF path = "media:content" THEN media
        ELSE NoElem]

\* A <channel> (or Atom feed element) with a title and items
Channel(title, items) ==
    [path \in {"title", "description", "itunes:summary", "itunes:image", "image/url", "item"} |->
        IF path = "title" THEN title
        ELSE IF path = "item" THEN items
        ELSE NoElem]

\* An element with nothing fetch_feed asks for
Plain == Channel(NoElem, <<>>)

\* A response without a document
NoContent == [body |-> "URLError", root |-> Node("", Plain, <<>>)]

\* <rss> with the given children
RssDoc(children) == [body |-> "xml", root |-> Node("rss", Plain, children)]

Rss(channel) == RssDoc(<<Node("channel", channel, <<>>)>>)

ItemA == [BareItem(A1, NoElem) EXCEPT !["guid"] = <<"1">>, !["title"] = <<" ", "x">>]

\* Same audio URL as ItemA, taken from media:content, under another guid
ItemA2 == [BareItem(<<>>, A1) EXCEPT !["guid"] = <<"2">>, !["description"] = <<"<", "l", ">", "x">>]

ItemB == [BareItem(B1, NoElem) EXCEPT !["itunes:duration"] = <<"7", "5">>, !["pubDate"] = IsoDate]

\* No audio URL: an enclosure with an empty url attribute
ItemN == BareItem(<<>>, NoElem)

\* What the server of a feed can answer
StoreResponses ==
    <<NoContent,
      [NoContent EXCEPT !.body = "ParseError"],
      RssDoc(<<>>),
      Rss(Channel(None, <<>>)),
      Rss(Channel(<<"p">>, <<ItemA, ItemN, ItemA2>>)),
      Rss(Channel(<<"q">>, <<ItemB, ItemA>>))>>

\* An answer is named by its place in StoreResponses
Answers == DOMAIN StoreResponses

E1 == <<"e">>

D1 == <<"d">>

\* A publish date no format of parse_date accepts
Monday == <<"M", "o", "n">>

ItemE == [BareItem(E1, NoElem) EXCEPT !["pubDate"] = IsoDate]

ItemD == [BareItem(D1, NoElem) EXCEPT !["pubDate"] = Monday]

\* Answers with publish dates: dated and undated items, equal dates
DatedResponses ==
    <<Rss(Channel(<<"r">>, <<ItemE, ItemD, ItemB, ItemA>>)),
      Rss(Channel(<<"r">>, <<ItemA, ItemD, ItemE>>))>>

\* Every answer of the model; the dated answers follow the others
Responses == StoreResponses \o DatedResponses

\* fetch_feed on each of these answers
FeedData == [answer \in DOMAIN Responses |-> fetch_feed(Responses[answer])]

-----------------------------------------------------------------------------
(* Inputs of the parser check *)

\* Longest item list and longest description text handed to the parser
MaxItems == 3

MaxDescLen == 4

\* What find() can give for an <enclosure> or a <media:content>: no element,
\* an element without url attribute, url="", a URL
EnclosureValues == {NoElem, None, <<>>, A1}

MediaValues == {NoElem, None, <<>>, B1}

AudioItems == {BareItem(enclosure, media) : enclosure \in EnclosureValues, media \in MediaValues}

DescChars == {"<", ">", "&", ";", "l", "t"}

\* A feed of the given items
ItemsFeed(items) == Rss(Channel(<<"p">>, items))

\* A feed of one item with the given description
DescFeed(d) == Rss(Channel(<<"p">>, <<[BareItem(A1, NoElem) EXCEPT !["description"] = d]>>))

\* Longest <itunes:duration> text of the parser check
MaxDurLen == 4

DurChars == {"1", "2", "3", "5", "7", ":", "-", "a"}

\* A feed of one item with the given <itunes:duration>
DurFeed(d) == Rss(Channel(<<"p">>, <<[BareItem(A1, NoElem) EXCEPT !["itunes:duration"] = d]>>))

\* The text of a child element: no such element, an element without text,
\* blank text, text with and without blanks around it
TextValues == {NoElem, None, <<" ">>, <<" ", " ">>, <<" ", "d", " ">>, <<"s">>}

\* A feed whose channel has the given description and itunes:summary
TextFeed(description, summary) ==
    Rss([Channel(<<"p">>, <<>>) EXCEPT !["description"] = description,
                                      !["itunes:summary"] = summary])

\* Largest number of children of an element in the documents below
MaxChildren == 2

\* The elements of these documents: a channel, an Atom feed element, a
\* wrapper around an Atom feed element, an element of another kind
DocNodes ==
    {Node("channel", Channel(<<"c">>, <<>>), <<>>),
     Node(AtomFeed, Channel(<<"t">>, <<>>), <<>>),
     Node("x", Plain, <<Node(AtomFeed, Channel(<<"t">>, <<>>), <<>>)>>),
     Node("x", Plain, <<>>)}

\* A document with the given root tag and children; the root of an Atom
\* document is the feed element itself
Doc(tag, children) ==
    [body |-> "xml",
     root |-> Node(tag, IF tag = AtomFeed THEN Channel(<<"a">>, <<>>) ELSE Plain, children)]

-----------------------------------------------------------------------------
(* The tables *)

\* get_db: sqlite3.connect() leaves PRAGMA foreign_keys at its default, off,
\* so the FOREIGN KEY clause of episodes is not enforced
ForeignKeys == FALSE

\* url TEXT UNIQUE of feeds
UrlConflict(url) == \E f \in feeds : f.url = url

FeedById(feed_id) == {f \in feeds : f.id = feed_id}

EpisodesOf(eps, feed_id) == {e \in eps : e.feed_id = feed_id}

\* A schema without the UNIQUE constraint of episodes
NoUniqueConflict(eps, feed_id, audio_url) == FALSE

\* UNIQUE(feed_id, audio_url)
UniqueConflict(eps, feed_id, audio_url) ==
    \E e \in eps : e.feed_id = feed_id /\ e.audio_url = audio_url

\* A schema with UNIQUE(feed_id, guid) in place of UNIQUE(feed_id, audio_url)
IgnoredOnGuid(eps, feed_id, ep) ==
    \/ ep.audio_url = None
    \/ ep.title = None
    \/ \E e \in eps : e.feed_id = feed_id /\ e.guid = ep.guid

\* The constraints INSERT OR IGNORE turns into a skipped row
Ignored(eps, feed_id, ep) ==
    \/ ep.audio_url = None
    \/ ep.title = None
    \/ UniqueConflict(eps, feed_id, ep.audio_url)

EpisodeRow(id, feed_id, ep) ==
    [id |-> id, feed_id |-> feed_id, guid |-> ep.guid, title |-> ep.title,
     description |-> ep.description, audio_url |-> ep.audio_url,
     pub_date |-> ep.pub_date, duration |-> ep.duration,
     played |-> FALSE, position |-> 0]

\* INSERT OR REPLACE: a row in conflict is deleted and the new row takes its
\* place, with the default played and position
InsertOrReplace(db, feed_id, ep) ==
    IF ep.audio_url = None \/ ep.title = None
    THEN [db EXCEPT !.seq = @ + 1]
    ELSE [episodes  |-> {e \in db.episodes :
                            ~(e.feed_id = feed_id /\ e.audio_url = ep.audio_url)}
                        \cup {EpisodeRow(db.seq + 1, feed_id, ep)},
          seq       |-> db.seq + 1,
          new_count |-> db.new_count + 1]

\* A count of the statements run instead of the rows inserted
InsertOrIgnoreCountAll(db, feed_id, ep) ==
    IF Ignored(db.episodes, feed_id, ep)
    THEN [db EXCEPT !.seq = @ + 1, !.new_count = @ + 1]
    ELSE [episodes  |-> db.episodes \cup {EpisodeRow(db.seq + 1, feed_id, ep)},
          seq       |-> db.seq + 1,
          new_count |-> db.new_count + 1]

\* One INSERT OR IGNORE INTO episodes on db = [episodes, seq, new_count]: the
\* AUTOINCREMENT rowid is drawn before the constraints are checked, so a
\* skipped row uses up an id as well; new_count adds cursor.rowcount
InsertOrIgnore(db, feed_id, ep) ==
    IF Ignored(db.episodes, feed_id, ep)
    THEN [db EXCEPT !.seq = @ + 1]
    ELSE [episodes  |-> db.episodes \cup {EpisodeRow(db.seq + 1, feed_id, ep)},
          seq       |-> db.seq + 1,
          new_count |-> db.new_count + 1]

\* for ep in feed_data["episodes"]: INSERT OR IGNORE ...
RECURSIVE InsertEpisodes(_, _, _)
InsertEpisodes(db, feed_id, eps) ==
    IF eps = <<>> THEN db
    ELSE InsertEpisodes(InsertOrIgnore(db, feed_id, Head(eps)), feed_id, Tail(eps))

\* ON DELETE CASCADE of episodes.feed_id
CascadeDelete(eps, feed_id) ==
    IF ForeignKeys THEN {e \in eps : e.feed_id # feed_id} ELSE eps

-----------------------------------------------------------------------------
(* Request handlers *)

NoData == [ok |-> FALSE]

\* A response: the handler, the URL (add_feed answered by the look-up) or
\* the id (of a request that was carried out) it was asked with, the status
\* and the count in the body, the parse result that was written.  repeat
\* tells that it answers a refresh that ran on the same feed with the same
\* parse result as the refresh answered right before it.
Event(op, url, id, status, count, answer) ==
    [op |-> op, url |-> url, id |-> id, status |-> status,
     count |-> count, answer |-> answer, rows |-> <<>>,
     repeat |-> /\ op = "refresh_feed" /\ status = 200
                /\ event.op = "refresh_feed" /\ event.status = 200
                /\ event.id = id
                /\ event.answer # 0
                /\ FeedData[event.answer] = FeedData[answer]]

\* The requests under way are kept in one order, add requests by URL before
\* refresh requests by feed id (a feed id stands for one URL for good): which
\* worker runs a request makes no difference to what it does.
Rank(r) ==
    IF r.pc = "add_fetch" THEN (CHOOSE k \in 1..Len(Urls) : Urls[k] = r.url)
    ELSE Len(Urls) + r.feed_id

Idle == inflight = <<>>

StoreInit ==
    /\ feeds = {}
    /\ episodes = {}
    /\ feedSeq = 0
    /\ episodeSeq = 0
    /\ inflight = <<>>
    /\ event = [op |-> "none", url |-> None, id |-> 0, status |-> 0, count |-> 0,
                answer |-> 0, rows |-> <<>>, repeat |-> FALSE]

\* A request can be taken on
Free == Len(inflight) < NumSlots

Requests == DOMAIN inflight

Begin(r) ==
    LET k == Cardinality({i \in DOMAIN inflight : Rank(inflight[i]) <= Rank(r)}) IN
    inflight' = SubSeq(inflight, 1, k) \o <<r>> \o SubSeq(inflight, k + 1, Len(inflight))

End(i) ==
    inflight' = SubSeq(inflight, 1, i - 1) \o SubSeq(inflight, i + 1, Len(inflight))

\* A handler without the look-up
NoExisting(url) == {}

\* SELECT id FROM feeds WHERE url = ?
Existing(url) == {f \in feeds : f.url = url}

\* add_feed, lines 225-236: the request arrives and the handler looks the
\* URL up; it goes on to fetch_feed only for a URL that is not stored
AddFeed(url_field) ==
    LET url == Strip(url_field) IN
    /\ Free
    /\ IF url = <<>>
       THEN /\ event' = Event("add_feed", url, 0, 400, 0, 0)
            /\ UNCHANGED inflight
       ELSE IF Existing(url) # {}
       THEN /\ event' = Event("add_feed", url, 0, 409, 0, 0)
            /\ UNCHANGED inflight
       ELSE /\ UNCHANGED event
            /\ Begin([pc |-> "add_fetch", url |-> url, feed_id |-> 0])
    /\ UNCHANGED <<feeds, episodes, feedSeq, episodeSeq>>

\* A handler that inserts the feed row before it fetches
AddFeedInsertedBeforeFetch(i, answer) ==
    /\ i \in Requests /\ inflight[i].pc = "add_fetch"
    /\ ~FeedData[answer].ok
    /\ feedSeq < MaxFeedSeq
    /\ feeds' = feeds \cup {[id |-> feedSeq + 1, url |-> inflight[i].url, title |-> UnknownPodcast,
                             description |-> None, image_url |-> None,
                             added_at |-> feedSeq + 1]}
    /\ feedSeq' = feedSeq + 1
    /\ event' = Event("add_feed", None, 0, 400, 0, 0)
    /\ End(i)
    /\ UNCHANGED <<episodes, episodeSeq>>

\* add_feed, lines 238-243: fetch_feed raised
AddFeedFetchFailed(i, answer) ==
    /\ i \in Requests /\ inflight[i].pc = "add_fetch"
    /\ ~FeedData[answer].ok
    /\ event' = Event("add_feed", None, 0, 400, 0, 0)
    /\ End(i)
    /\ UNCHANGED <<feeds, episodes, feedSeq, episodeSeq>>

\* add_feed, lines 238-271: fetch_feed returned; the feed row and the
\* episode rows are inserted in one transaction.  A row with the same URL
\* that another request committed meanwhile makes the INSERT raise
\* IntegrityError, which nothing catches: status 500, nothing committed.
AddFeedInsert(i, answer) ==
    LET feed_data == FeedData[answer]
        url       == inflight[i].url
        feed_id   == feedSeq + 1
        db        == InsertEpisodes([episodes |-> episodes, seq |-> episodeSeq, new_count |-> 0],
                                    feed_id, feed_data.episodes)
    IN
    /\ i \in Requests /\ inflight[i].pc = "add_fetch"
    /\ feed_data.ok
    /\ \/ UrlConflict(url)
       \/ feedSeq < MaxFeedSeq /\ episodeSeq + Len(feed_data.episodes) <= MaxEpisodeSeq
    /\ End(i)
    /\ IF UrlConflict(url)
       THEN /\ event' = Event("add_feed", None, 0, 500, 0, 0)
            /\ UNCHANGED <<feeds, episodes, feedSeq, episodeSeq>>
       ELSE /\ feeds' = feeds \cup {[id |-> feed_id, url |-> url, title |-> feed_data.title,
                                     description |-> feed_data.description,
                                     image_url |-> feed_data.image_url,
                                     added_at |-> feed_id]}
            /\ feedSeq' = feed_id
            /\ episodes' = db.episodes
            /\ episodeSeq' = db.seq
            /\ event' = Event("add_feed", url, feed_id, 201, Len(feed_data.episodes), answer)

\* delete_feed, lines 274-281
DeleteFeed(feed_id) ==
    /\ Free
    /\ feeds' = {f \in feeds : f.id # feed_id}
    /\ episodes' = CascadeDelete(episodes, feed_id)
    /\ event' = Event("delete_feed", None, feed_id, 204, 0, 0)
    /\ UNCHANGED <<feedSeq, episodeSeq, inflight>>

\* refresh_feed, lines 285-292: the request arrives and the handler reads
\* the URL of the feed
RefreshFeed(feed_id) ==
    /\ Free
    /\ IF FeedById(feed_id) = {}
       THEN /\ event' = Event("refresh_feed", None, 0, 404, 0, 0)
            /\ UNCHANGED inflight
       ELSE LET feed == CHOOSE f \in FeedById(feed_id) : TRUE IN
            /\ UNCHANGED event
            /\ Begin([pc |-> "refresh_fetch", url |-> feed.url, feed_id |-> feed_id])
    /\ UNCHANGED <<feeds, episodes, feedSeq, episodeSeq>>

\* A handler that resets the feed's metadata before it fetches
RefreshClearedBeforeFetch(i, answer) ==
    /\ i \in Requests /\ inflight[i].pc = "refresh_fetch"
    /\ ~FeedData[answer].ok
    /\ feeds' = {IF f.id = inflight[i].feed_id THEN [f EXCEPT !.title = UnknownPodcast] ELSE f :
                 f \in feeds}
    /\ event' = Event("refresh_feed", None, 0, 400, 0, 0)
    /\ End(i)
    /\ UNCHANGED <<episodes, feedSeq, episodeSeq>>

\* refresh_feed, lines 294-298: fetch_feed raised
RefreshFetchFailed(i, answer) ==
    /\ i \in Requests /\ inflight[i].pc = "refresh_fetch"
    /\ ~FeedData[answer].ok
    /\ event' = Event("refresh_feed", None, 0, 400, 0, 0)
    /\ End(i)
    /\ UNCHANGED <<feeds, episodes, feedSeq, episodeSeq>>

\* refresh_feed, lines 294-321: fetch_feed returned; the UPDATE of the feed
\* row and the INSERT OR IGNOREs are one transaction
RefreshWrite(i, answer) ==
    LET feed_data == FeedData[answer]
        feed_id   == inflight[i].feed_id
        db        == InsertEpisodes([episodes |-> episodes, seq |-> episodeSeq, new_count |-> 0],
                                    feed_id, feed_data.episodes)
    IN
    /\ i \in Requests /\ inflight[i].pc = "refresh_fetch"
    /\ feed_data.ok
    /\ episodeSeq + Len(feed_data.episodes) <= MaxEpisodeSeq
    /\ End(i)
    /\ IF ForeignKeys /\ FeedById(feed_id) = {} /\ db.new_count > 0
       THEN \* an enforced foreign key makes the INSERT raise IntegrityError
            /\ event' = Event("refresh_feed", None, 0, 500, 0, 0)
            /\ UNCHANGED <<feeds, episodes, feedSeq, episodeSeq>>
       ELSE /\ feeds' = {IF f.id = feed_id
                         THEN [f EXCEPT !.title = feed_data.title,
                                        !.description = feed_data.description,
                                        !.image_url = feed_data.image_url]
                         ELSE f : f \in feeds}
            /\ episodes' = db.episodes
            /\ episodeSeq' = db.seq
            /\ event' = Event("refresh_feed", None, feed_id, 200, db.new_count, answer)
            /\ UNCHANGED feedSeq

\* update_progress, lines 337-351
UpdateProgress(episode_id, position, played) ==
    /\ Free
    /\ episodes' = {IF e.id = episode_id
                    THEN [e EXCEPT !.position = position, !.played = played]
                    ELSE e : e \in episodes}
    /\ event' = Event("update_progress", None, episode_id, 204, 0, 0)
    /\ UNCHANGED <<feeds, feedSeq, episodeSeq, inflight>>

\* mark_played, lines 354-364
MarkPlayed(episode_id) ==
    /\ Free
    /\ episodes' = {IF e.id = episode_id THEN [e EXCEPT !.played = ~e.played] ELSE e :
                    e \in episodes}
    /\ event' = Event("mark_played", None, episode_id, 204, 0, 0)
    /\ UNCHANGED <<feeds, feedSeq, episodeSeq, inflight>>

\* The page's audio element reaches the end of the episode it plays, at
\* currentTime = position: the browser fires "pause" and then "ended".  The
\* pause handler (lines 1092-1096) calls saveProgress, which sends position
\* and played: false (lines 1131-1138); the ended handler (lines 1109-1119)
\* sends position 0 and played: true.  Neither waits for the other.
Ended(episode_id, position) ==
    /\ Idle /\ NumSlots >= 2
    /\ \E e \in episodes : e.id = episode_id
    /\ inflight' = <<[pc |-> "update_progress", episode_id |-> episode_id,
                      position |-> position, played |-> FALSE],
                     [pc |-> "update_progress", episode_id |-> episode_id,
                      position |-> 0, played |-> TRUE]>>
    /\ UNCHANGED <<feeds, episodes, feedSeq, episodeSeq, event>>

\* update_progress, lines 337-351, run by the threaded server for one of
\* the requests under way
ServeProgress(i) ==
    /\ i \in Requests /\ inflight[i].pc = "update_progress"
    /\ episodes' = {IF e.id = inflight[i].episode_id
                    THEN [e EXCEPT !.position = inflight[i].position,
                                   !.played = inflight[i].played]
                    ELSE e : e \in episodes}
    /\ event' = Event("update_progress", None, inflight[i].episode_id, 204, 0, 0)
    /\ End(i)
    /\ UNCHANGED <<feeds, feedSeq, episodeSeq>>

\* The characters of the stored publish dates, by code point
Ascii == <<" ", "-", "0", "1", "2", "3", "4", "5", "6", "7", "8", "9", ":", "M", "n", "o">>

CharCode(c) == CHOOSE k \in DOMAIN Ascii : Ascii[k] = c

\* a < b for TEXT values (collation BINARY)
RECURSIVE StrLess(_, _)
StrLess(a, b) ==
    IF b = <<>> THEN FALSE
    ELSE IF a = <<>> THEN TRUE
    ELSE IF Head(a) = Head(b) THEN StrLess(Tail(a), Tail(b))
    ELSE CharCode(Head(a)) < CharCode(Head(b))

\* x < y in an ORDER BY: NULL comes below every value
SqlLess(x, y) ==
    IF y = None THEN FALSE
    ELSE IF x = None THEN TRUE
    ELSE StrLess(x, y)

\* ORDER BY pub_date DESC, id ASC
OrderedBeforeIdAscending(a, b) ==
    \/ SqlLess(b.pub_date, a.pub_date)
    \/ a.pub_date = b.pub_date /\ a.id < b.id

\* ORDER BY pub_date DESC, id DESC: row a comes before row b
OrderedBefore(a, b) ==
    \/ SqlLess(b.pub_date, a.pub_date)
    \/ a.pub_date = b.pub_date /\ a.id > b.id

RECURSIVE OrderBy(_)
OrderBy(rows) ==
    IF rows = {} THEN <<>>
    ELSE LET first == CHOOSE a \in rows : \A b \in rows \ {a} : OrderedBefore(a, b)
         IN  <<first>> \o OrderBy(rows \ {first})

\* SELECT id, title, description, audio_url, pub_date, duration, played, position
Selected(e) ==
    [id |-> e.id, title |-> e.title, description |-> e.description,
     audio_url |-> e.audio_url, pub_date |-> e.pub_date, duration |-> e.duration,
     played |-> e.played, position |-> e.position]

\* list_episodes, lines 324-334
ListEpisodes(feed_id) ==
    /\ Free
    /\ event' = [Event("list_episodes", None, feed_id, 200, 0, 0) EXCEPT
                    !.rows = OrderBy({Selected(e) : e \in EpisodesOf(episodes, feed_id)})]
    /\ UNCHANGED <<feeds, episodes, feedSeq, episodeSeq, inflight>>

-----------------------------------------------------------------------------
(* Specifications *)


Init ==
    /\ StoreInit
    /\ content = NoContent
    /\ parsed = NoData

\* The requests that add, refresh and delete feeds, NumSlots at a time
FeedNext ==
    \/ \E url_field \in UrlInputs : AddFeed(url_field)
    \/ \E i \in Requests, answer \in Answers : AddFeedFetchFailed(i, answer)
    \/ \E i \in Requests, answer \in Answers : AddFeedInsert(i, answer)
    \/ \E feed_id \in FeedIds : DeleteFeed(feed_id)
    \/ \E feed_id \in FeedIds : RefreshFeed(feed_id)
    \/ \E i \in Requests, answer \in Answers : RefreshFetchFailed(i, answer)
    \/ \E i \in Requests, answer \in Answers : RefreshWrite(i, answer)

Next == FeedNext /\ UNCHANGED <<content, parsed>>

Spec == Init /\ [][Next]_vars

\* Every kind of request, one request at a time
SerialNext ==
    \/ Idle /\ \E url_field \in UrlInputs : AddFeed(url_field)
    \/ \E i \in Requests, answer \in Answers : AddFeedFetchFailed(i, answer)
    \/ \E i \in Requests, answer \in Answers : AddFeedInsert(i, answer)
    \/ Idle /\ \E feed_id \in FeedIds : DeleteFeed(feed_id)
    \/ Idle /\ \E feed_id \in FeedIds : RefreshFeed(feed_id)
    \/ \E i \in Requests, answer \in Answers : RefreshFetchFailed(i, answer)
    \/ \E i \in Requests, answer \in Answers : RefreshWrite(i, answer)
    \/ Idle
       /\ \E episode_id \in EpisodeIds, position \in Positions, played \in BOOLEAN :
             UpdateProgress(episode_id, position, played)
    \/ Idle /\ \E episode_id \in EpisodeIds : MarkPlayed(episode_id)

SerialSpec == Init /\ [][SerialNext /\ UNCHANGED <<content, parsed>>]_vars

\* Feeds with publish dates and their listings, one request at a time
ListNext ==
    \/ Idle /\ \E url_field \in UrlInputs : AddFeed(url_field)
    \/ \E i \in Requests, answer \in DOMAIN Responses : AddFeedFetchFailed(i, answer)
    \/ \E i \in Requests, answer \in DOMAIN Responses : AddFeedInsert(i, answer)
    \/ Idle /\ \E feed_id \in FeedIds : DeleteFeed(feed_id)
    \/ Idle /\ \E feed_id \in FeedIds : RefreshFeed(feed_id)
    \/ \E i \in Requests, answer \in DOMAIN Responses : RefreshFetchFailed(i, answer)
    \/ \E i \in Requests, answer \in DOMAIN Responses : RefreshWrite(i, answer)
    \/ Idle /\ \E feed_id \in FeedIds : ListEpisodes(feed_id)

ListSpec == Init /\ [][ListNext /\ UNCHANGED <<content, parsed>>]_vars

\* Feeds are added and episodes are played to their end
PlayNext ==
    \/ Idle /\ \E url_field \in UrlInputs : AddFeed(url_field)
    \/ \E i \in Requests, answer \in Answers : AddFeedFetchFailed(i, answer)
    \/ \E i \in Requests, answer \in Answers : AddFeedInsert(i, answer)
    \/ \E episode_id \in EpisodeIds, position \in Positions \ {0} : Ended(episode_id, position)
    \/ \E i \in Requests : ServeProgress(i)

PlaySpec == Init /\ [][PlayNext /\ UNCHANGED <<content, parsed>>]_vars

\* fetch_feed run on one answer
FetchFeed ==
    /\ parsed = NoData
    /\ parsed' = fetch_feed(content)
    /\ UNCHANGED <<storeVars, content>>

ParseInit ==
    /\ StoreInit
    /\ \/ \E k \in 0..MaxItems : \E items \in [1..k -> AudioItems] :
             content = ItemsFeed(items)
       \/ \E k \in 1..MaxDescLen : \E d \in [1..k -> DescChars] :
             content = DescFeed(d)
       \/ \E k \in 1..MaxDurLen : \E d \in [1..k -> DurChars] :
             content = DurFeed(d)
       \/ \E description \in TextValues, summary \in TextValues :
             content = TextFeed(description, summary)
       \/ \E tag \in {"rss", AtomFeed}, k \in 0..MaxChildren :
             \E children \in [1..k -> DocNodes] : content = Doc(tag, children)
    /\ parsed = NoData

ParseSpec == ParseInit /\ [][FetchFeed]_vars

-----------------------------------------------------------------------------
(* Claims *)

Storage == <<feeds, episodes>>

\* inflight without its i-th request
Without(i) == SubSeq(inflight, 1, i - 1) \o SubSeq(inflight, i + 1, Len(inflight))

\* The i-th request, under way at this place, is answered with this status
Ends(i, place, status) ==
    event'.status = status /\ inflight[i].pc = place /\ inflight' = Without(i)

\* No request is taken on or answered after a fetch
SameRequests == inflight' = inflight

Stored(url) == \E f \in feeds : f.url = url

\* C1: once delete_feed(feedId) is answered, no stored episode has
\* feed_id = feedId.
C1_DeleteRemovesEpisodes ==
    event.op = "delete_feed" => EpisodesOf(episodes, event.id) = {}

\* C2: a refresh_feed that runs right after a refresh_feed of the same feed
\* with the same parsed content reports new_episodes = 0 and adds no row.
C2_RefreshIdempotent ==
    [][\A i \in Requests :
          Ends(i, "refresh_fetch", 200) /\ event'.repeat
          => event'.count = 0 /\ episodes' = episodes]_vars

C2_Witness ==
    /\ event.repeat
    /\ event.count = 0
    /\ \E i, j \in 1..Len(FeedData[event.answer].episodes) :
          i # j /\ FeedData[event.answer].episodes[i].audio_url = FeedData[event.answer].episodes[j].audio_url
    /\ EpisodesOf(episodes, event.id) # {}

\* C3: no two stored episodes have the same feed id and audio URL.
C3_UniqueAudioUrl ==
    \A e1, e2 \in episodes :
        e1.feed_id = e2.feed_id /\ e1.audio_url = e2.audio_url => e1 = e2

\* A refresh has inserted rows while another refresh of the same feed is
\* under way
C3_Witness ==
    /\ event.op = "refresh_feed" /\ event.status = 200 /\ event.count > 0
    /\ \E i \in Requests : inflight[i].pc = "refresh_fetch" /\ inflight[i].feed_id = event.id
    /\ \E i, j \in 1..Len(FeedData[event.answer].episodes) :
          i # j /\ FeedData[event.answer].episodes[i].audio_url = FeedData[event.answer].episodes[j].audio_url

\* C4: an add_feed for a URL that is stored is answered 409 by the look-up,
\* starts no fetch and leaves both tables as they are.
C4_AddExistingConflicts ==
    [][/\ \A i \in DOMAIN inflight' :
             (inflight'[i].pc = "add_fetch" /\ Len(inflight') > Len(inflight)
              /\ inflight = SubSeq(inflight', 1, i - 1) \o SubSeq(inflight', i + 1, Len(inflight')))
             => ~Stored(inflight'[i].url)
       /\ (event' # event /\ event'.op = "add_feed" /\ SameRequests /\ Stored(event'.url))
          => event'.status = 409
       /\ (event' # event /\ event'.status = 409)
          => SameRequests /\ Storage' = Storage /\ Stored(event'.url)]_vars

C4_Witness ==
    /\ event.op = "add_feed" /\ event.status = 409
    /\ \E f \in feeds : f.url = event.url /\ EpisodesOf(episodes, f.id) # {}

\* Every element of the document of a response, the root first
DocumentOf(response) == <<response.root>> \o DescendantsOf(response.root.children)

\* The answers fetch_feed fails on: a network failure, malformed XML, no
\* channel and no Atom feed element
FetchFails(response) ==
    \/ response.body \in {"URLError", "ParseError"}
    \/ /\ Find(response.root, "channel") = <<>>
       /\ \A k \in DOMAIN DocumentOf(response) : DocumentOf(response)[k].tag # AtomFeed

\* fetch_feed fails on each of these answers
FailingAnswersFail ==
    \A answer \in Answers : FetchFails(StoreResponses[answer]) => ~FeedData[answer].ok

\* C5: a fetch_feed failure in add_feed leaves both tables as they were.
C5_AddFailureNoSideEffect ==
    [][/\ FailingAnswersFail
       /\ \A i \in Requests :
             Ends(i, "add_fetch", 400) => Storage' = Storage /\ feedSeq' = feedSeq]_vars

C5_Witness ==
    /\ event.op = "add_feed" /\ event.status = 400 /\ event.url = None
    /\ episodes # {}

\* C6: a fetch_feed failure in refresh_feed leaves the feed row and the
\* episodes as they were.
C6_RefreshFailureUntouched ==
    [][\A i \in Requests : Ends(i, "refresh_fetch", 400) => Storage' = Storage]_vars

C6_Witness ==
    /\ event.op = "refresh_feed" /\ event.status = 400
    /\ \E f \in feeds : f.title # UnknownPodcast /\ EpisodesOf(episodes, f.id) # {}

\* The audio URLs of a parse result
AudioUrls(feed_data) ==
    {feed_data.episodes[i].audio_url : i \in 1..Len(feed_data.episodes)}

\* C7: the count refresh_feed returns is the number of rows it added: the
\* growth of the feed's episodes, which is the number of distinct parsed
\* audio URLs that were not stored for the feed.
C7_RefreshCountsAddedRows ==
    [][\A i \in Requests :
          Ends(i, "refresh_fetch", 200)
          => LET before == EpisodesOf(episodes, inflight[i].feed_id)
                 after  == EpisodesOf(episodes', inflight[i].feed_id)
             IN  /\ event'.count = Cardinality(after) - Cardinality(before)
                 /\ event'.count =
                       Cardinality(AudioUrls(FeedData[event'.answer]) \ {e.audio_url : e \in before})]_vars

\* A refresh that added a row and ran an INSERT that added none
C7_Witness ==
    /\ event.op = "refresh_feed" /\ event.status = 200
    /\ event.count > 0
    /\ event.count < Len(FeedData[event.answer].episodes)

\* The items of the channel fetch_feed was given
Items == Find(content.root, "channel")[1].elem["item"]

HasUrl(value) == value # NoElem /\ value # None /\ value # <<>>

\* The audio URL of an item as C8 defines it
ResolvedUrl(item) ==
    IF HasUrl(item["enclosure"]) THEN item["enclosure"] ELSE item["media:content"]

Resolvable(item) == HasUrl(item["enclosure"]) \/ HasUrl(item["media:content"])

\* C8: fetch_feed returns one episode per item with a resolvable audio URL,
\* in document order, each with that URL, and raises no error.
C8_OneEpisodePerResolvableItem ==
    (parsed # NoData /\ Find(content.root, "channel") # <<>>)
    => LET valid == SelectSeq(Items, Resolvable) IN
       /\ parsed.ok
       /\ Len(parsed.episodes) = Len(valid)
       /\ \A i \in 1..Len(valid) : parsed.episodes[i].audio_url = ResolvedUrl(valid[i])

\* Three items: no audio, media:content only, enclosure
C8_Witness ==
    /\ parsed # NoData /\ Find(content.root, "channel") # <<>>
    /\ Len(Items) = 3 /\ Len(parsed.episodes) = 2
    /\ ~Resolvable(Items[1])
    /\ Items[2]["enclosure"] = NoElem /\ parsed.episodes[1].audio_url = B1
    /\ parsed.episodes[2].audio_url = A1

\* C9: a description fetch_feed returns has at most 500 characters and
\* holds neither "<" nor ">".
C9_DescriptionHasNoMarkup ==
    parsed # NoData /\ parsed.ok
    => \A i \in 1..Len(parsed.episodes) :
          LET d == parsed.episodes[i].description IN
          d # None => Len(d) <= 500 /\ ~Contains(d, "<") /\ ~Contains(d, ">")

\* C10: update_progress and mark_played on an id that is no episode's are
\* answered 404.
C10_UnknownEpisodeNotFound ==
    (event.op \in {"update_progress", "mark_played"} /\ ~\E e \in episodes : e.id = event.id)
    => event.status = 404

\* The items of the channel of an answer that has one
AnswerItems(answer) == Find(Responses[answer].root, "channel")[1].elem["item"]

\* C11: every stored episode has an audio URL that is neither NULL nor the
\* empty string.
C11_AudioUrlNonEmpty ==
    \A e \in episodes : e.audio_url # None /\ e.audio_url # <<>>

\* A feed whose document holds an item without audio URL has been stored
C11_Witness ==
    /\ event.status \in {200, 201} /\ event.answer # 0
    /\ \E k \in DOMAIN AnswerItems(event.answer) : Falsy(AudioUrl(AnswerItems(event.answer)[k]))
    /\ \E e \in episodes : e.feed_id = event.id
\* The Atom feed elements of a document, the root included
AtomFeeds(response) == SelectSeq(DocumentOf(response), LAMBDA n : n.tag = AtomFeed)

\* C12: without a channel, fetch_feed takes the Atom feed element of the
\* document as the feed root and returns a result; it fails only when the
\* document has neither a channel nor an Atom feed element.
C12_AtomFeedIsRoot ==
    (parsed # NoData /\ content.body = "xml")
    => LET channel == Find(content.root, "channel")
           feed    == AtomFeeds(content)
       IN  /\ (channel = <<>> /\ feed # <<>>)
                => parsed.ok /\ parsed.title = feed[1].elem["title"]
           /\ ~parsed.ok => (channel = <<>> /\ feed = <<>>)
\* The trimmed text of the first of the candidate fields whose text is not
\* empty after trimming; None when there is no such field
RECURSIVE FirstNonBlank(_, _)
FirstNonBlank(elem, paths) ==
    IF paths = <<>> THEN None
    ELSE LET text == elem[Head(paths)] IN
         IF text # NoElem /\ text # None /\ Strip(text) # <<>> THEN Strip(text)
         ELSE FirstNonBlank(elem, Tail(paths))

\* C13: find_text returns the trimmed text of the first candidate whose text
\* is non-empty after trimming, passing over blank candidates, and None when
\* there is none; checked on the description of the feed.
C13_FindTextSkipsBlank ==
    (parsed # NoData /\ Find(content.root, "channel") # <<>>)
    => parsed.description =
          FirstNonBlank(Find(content.root, "channel")[1].elem, <<"description", "itunes:summary">>)
\* n seconds as H:MM:SS when there are hours and as M:SS otherwise
Clock(n) ==
    IF n \div 3600 > 0
    THEN NatStr(n \div 3600) \o <<":">> \o Pad2((n % 3600) \div 60) \o <<":">> \o Pad2(n % 60)
    ELSE NatStr(n \div 60) \o <<":">> \o Pad2(n % 60)

\* C14: parse_duration returns a string with a colon unchanged, a whole
\* number of seconds as H:MM:SS or M:SS, any other string unchanged, and None
\* for no duration; checked on the duration of a feed's only item.
C14_DurationFormat ==
    (parsed # NoData /\ Find(content.root, "channel") # <<>>
        /\ Len(Items) = 1 /\ Len(parsed.episodes) = 1)
    => LET d   == Items[1]["itunes:duration"]
           out == parsed.episodes[1].duration
       IN  IF d = NoElem \/ Falsy(d) THEN out = None
           ELSE IF Contains(d, ":") THEN out = d
           ELSE IF AllDigits(d) THEN out = Clock(DigitsVal(d))
           ELSE out = d
\* C15: list_episodes returns exactly the stored episodes of the feed, by
\* publish date descending and, for equal or missing dates, by id descending.
C15_ListOrder ==
    [][event'.op = "list_episodes"
       => LET rows == event'.rows
              stored == {Selected(e) : e \in EpisodesOf(episodes, event'.id)}
          IN  /\ Len(rows) = Cardinality(stored)
              /\ {rows[k] : k \in DOMAIN rows} = stored
              /\ \A j, k \in DOMAIN rows :
                    j < k =>
                      /\ (rows[j].pub_date # None /\ rows[k].pub_date # None
                            /\ rows[j].pub_date # rows[k].pub_date)
                           => StrLess(rows[k].pub_date, rows[j].pub_date)
                      /\ rows[j].pub_date = rows[k].pub_date => rows[j].id > rows[k].id]_vars

\* A listing with two dates, two episodes of the same date and an undated one
C15_Witness ==
    /\ event.op = "list_episodes" /\ Len(event.rows) = 4
    /\ \E j, k \in DOMAIN event.rows :
          j # k /\ event.rows[j].pub_date = event.rows[k].pub_date
    /\ \E k \in DOMAIN event.rows : event.rows[k].pub_date = None
    /\ event.rows[1].pub_date = Monday
\* C16: every stored episode belongs to a feed that is stored.
C16_EpisodeHasFeed ==
    \A e \in episodes : \E f \in feeds : f.id = e.feed_id
\* C17: once the requests the page sent at the natural end of an episode
\* have been served, the episode is stored with played = true and
\* position = 0, in whatever order the server handled them.
C17_EndedStaysPlayed ==
    (Idle /\ event.op = "update_progress")
    => \A e \in episodes : e.id = event.id => e.played /\ e.position = 0
\* C18: a successful refresh_feed changes only the title, description and
\* image URL of the refreshed feed and adds episode rows of that feed: its
\* id, URL and creation time, every other feed and every stored episode stay
\* as they were.
C18_RefreshFrame ==
    [][\A i \in Requests :
          Ends(i, "refresh_fetch", 200)
          => LET feed_id == inflight[i].feed_id IN
             /\ Cardinality(feeds') = Cardinality(feeds)
             /\ \A f \in feeds :
                   \E g \in feeds' :
                      /\ g.id = f.id /\ g.url = f.url /\ g.added_at = f.added_at
                      /\ f.id # feed_id => g = f
             /\ episodes \subseteq episodes'
             /\ \A e \in episodes' \ episodes : e.feed_id = feed_id]_vars

\* A refresh that wrote the title of a feed and added an episode to it
\* while an episode of the feed was played and in progress and another feed
\* was stored
C18_Witness ==
    /\ event.op = "refresh_feed" /\ event.status = 200 /\ event.count > 0
    /\ \E e \in episodes : e.feed_id = event.id /\ e.played /\ e.position # 0
    /\ \E f \in feeds : f.id = event.id /\ f.title = FeedData[event.answer].title
    /\ \E f \in feeds : f.id # event.id
\* C19: of the add_feed requests that run at the same time for one new URL,
\* one creates the feed and every other one is answered 409; none ends in
\* an unhandled error, and no two feed rows have the same URL.
C19_ConcurrentAddConflicts ==
    [][/\ \A i \in Requests :
             (inflight[i].pc = "add_fetch" /\ inflight' = Without(i)
                 /\ Stored(inflight[i].url) /\ event'.status # 400)
             => event'.status = 409
       /\ event'.status # 500
       /\ \A f, g \in feeds' : f.url = g.url => f.id = g.id]_vars
\* C20: the episode_count of a successful add_feed is the number of episode
\* rows stored for the new feed when the add has committed.
C20_EpisodeCountIsStored ==
    [][\A i \in Requests :
          Ends(i, "add_fetch", 201)
          => event'.count = Cardinality(EpisodesOf(episodes', event'.id))]_vars
====
